---- MODULE Spec2Model ----
(***************************************************************************)
(* cordova-icon (index.js): the validation-and-generation pipeline.        *)
(*                                                                         *)
(* The script is one promise chain                                         *)
(*   atLeastOnePlatformFound -> configFileExists -> validArtAssets ->      *)
(*   getProjectName -> getPlatforms -> generate -> catch -> then           *)
(* whose suspension points are fs.stat, fs.readFile, parser.parseString    *)
(* and imagemagick's resize.  Every action below is the delivery of one    *)
(* of those callbacks together with all promise handlers that run as a     *)
(* consequence, up to the next suspension point.                           *)
(***************************************************************************)
EXTENDS Integers, Sequences, FiniteSets, TLC

\* Number of platform descriptors in platforms.json.
NumPlatforms == 2
\* Largest number of asset specifications of one type in a descriptor.
MaxAssets == 3

\* Largest number of changes of the platform roots on disk during one run.
MaxFsChanges == 1
\* Largest number of segments a path template is made of.
MaxTemplateSegments == 2
\* Largest number of segments a project name is made of.
MaxNameSegments == 2

Platform == 1..NumPlatforms

\* The descriptors platforms.json is drawn from: the number of icon and of
\* splash specifications (each specification is identified by its position).
Descriptors ==
    { [icon |-> MaxAssets, splash |-> MaxAssets - 1],
      [icon |-> 1, splash |-> 0],
      [icon |-> 0, splash |-> 1] }

\* program[type] = null after validParamFile disabled the type.
Null == "null"

\* generate with the two .then(processPlatformFor...) of a platform swapped.
TypesSwapped == <<"splash", "icon">>

\* The two asset types, in the order generate chains them.
Types == <<"icon", "splash">>

\* Outcomes of fs.stat / fs.readFile that reject the node-style callback.
IOErrors == {"ENOENT", "EACCES"}

VARIABLES
    platformInfo,   \* platforms.json: per descriptor the number of icon / splash specs
    fs,             \* per platform root: "dir", "file", "ENOENT" (absent), "EACCES"
    disk,           \* per file (icon, splash, config): "ok", "ENOENT", "EACCES"
    xml,            \* content of the config document: "named", "noname", "malformed"
    program,        \* commander's parsed arguments: icon, splash, config
    pc,             \* the suspension point the main promise chain is waiting at
    stat,           \* per platform: outcome of the probe of the current getPlatforms call
    platforms,      \* value the last getPlatforms promise resolved with
    projectName,    \* value the getProjectName promise resolved with
    assetRead,      \* per asset type: state of validParamFile's readFile
    valid,          \* per asset type: value validParamFile resolved with
    validArt,       \* state of the promise built (and dropped) by validArtAssets
    pending,        \* resize operations invoked and not yet completed
    trace,          \* resize invocations, completions and 'created' reports, in order
    reported,       \* message shown by the final catch handler, "none" if none
    issued,         \* I/O operations issued so far
    shown,          \* display.success / display.warn messages of the validation stages
    activePlatforms,\* atLeastOnePlatformFound's local: the platforms it found added
    failures,       \* the rejections that have occurred on the chain's stages, in order
    fsChanges,      \* number of changes made to the platform roots during the run
    path,           \* processPath's first argument, a string as a sequence of characters
    name,           \* processPath's second argument (projectName)
    returned,       \* processPath's return value
    ppc             \* processPath: "idle", "call" (about to run) or "return"

vars == <<platformInfo, fs, disk, xml, program, pc, stat, platforms, projectName,
          assetRead, valid, validArt, pending, trace, reported, issued, shown,
          activePlatforms, failures, fsChanges, path, name, returned, ppc>>

env == <<platformInfo, fs, disk, xml>>

\* processPath's variables and the change counter: untouched by the callbacks.
aux == <<fsChanges, path, name, returned, ppc>>

----------------------------------------------------------------------------
(* Pure helpers *)

\* fs.stat on a platform root: the value of stat.isDirectory(), or the error.
Stat(f) ==
    CASE f = "dir"  -> "isDirectory"
      [] f = "file" -> "notDirectory"
      [] OTHER      -> f

\* getPlatforms taking every root that exists for an added platform.
ResolvedIfExists(st) ==
    [p \in Platform |-> [id |-> p, isAdded |-> st[p] \in {"isDirectory", "notDirectory"}]]

\* Q.all over the probes, once all are fulfilled: one resolved platform per
\* descriptor, in descriptor order.
Resolved(st) ==
    [p \in Platform |-> [id |-> p, isAdded |-> st[p] = "isDirectory"]]

\* _(platforms).where({ isAdded : true })
Where(pl) == SelectSeq(pl, LAMBDA r : r.isAdded)

\* platform[type+'Assets'].length
Assets(p, type) == platformInfo[p][type]

\* validParamFile's handlers on the outcome of readFile(program[type]).
ValidParamFile(type, warningType, outcome, prog) ==
    IF outcome = "ok"
    THEN [result |-> "true", program |-> prog, msg |-> <<type, "exists">>]
    ELSE IF warningType
    THEN [result |-> "true", program |-> [prog EXCEPT ![type] = Null],
          msg |-> <<type, "warn">>]
    ELSE IF outcome = "ENOENT"
    THEN [result |-> "false", program |-> prog, msg |-> <<>>]
    ELSE [result |-> "throw", program |-> prog, msg |-> <<>>]

\* The .spread handler of validArtAssets.
SpreadThrows(validIcon, validSplash) == validIcon = "false" /\ validSplash = "false"

\* A lenient extraction, (result.widget || {}).name || [''], that never throws.
WidgetNameLenient(doc) == IF doc = "named" THEN "App" ELSE ""

\* result.widget.name[0] on the parsed document.
WidgetName(doc) == IF doc = "named" THEN "App" ELSE "TypeError"

\* The guard of processPlatformFor.
ProcessPlatformFor(type, platform, prog) ==
    prog[type] # Null /\ Assets(platform.id, type) > 0

\* The first resize invoked from position (k, t) of generate's chain on: the
\* first asset of the first (platform, type) whose guard holds; none when the
\* chain runs to its end.
RECURSIVE FirstFrom(_, _, _, _)
FirstFrom(tasks, k, t, prog) ==
    IF k > Len(tasks) THEN {}
    ELSE IF t > Len(Types) THEN FirstFrom(tasks, k + 1, 1, prog)
    ELSE IF ProcessPlatformFor(Types[t], tasks[k], prog)
         THEN {[k |-> k, t |-> t, index |-> 1]}
         ELSE FirstFrom(tasks, k, t + 1, prog)

\* generateArtAssets' reduce with the inner promise not returned: the phase
\* counts as finished while its chain still runs, so the next phase starts too.
NextUnitsUnchained(tasks, u, prog) ==
    (IF u.index < Assets(tasks[u.k].id, Types[u.t])
     THEN {[u EXCEPT !.index = @ + 1]} ELSE {})
    \cup FirstFrom(tasks, u.k, u.t + 1, prog)

\* generateArtAssets' reduce: what is invoked once unit u has completed.
NextUnits(tasks, u, prog) ==
    IF u.index < Assets(tasks[u.k].id, Types[u.t])
    THEN {[u EXCEPT !.index = @ + 1]}
    ELSE FirstFrom(tasks, u.k, u.t + 1, prog)

RECURSIVE SeqOf(_)
SeqOf(S) == IF S = {} THEN <<>>
            ELSE LET x == CHOOSE y \in S : \A z \in S : <<y.k, y.t, y.index>> = <<z.k, z.t, z.index>>
                                                  \/ y.k < z.k
                                                  \/ (y.k = z.k /\ y.t < z.t)
                                                  \/ (y.k = z.k /\ y.t = z.t /\ y.index < z.index)
                 IN <<x>> \o SeqOf(S \ {x})

\* The event of unit u: processor(asset, program[type], platform[type+'Path']).
Event(op, tasks, u, prog) ==
    [op |-> op, platform |-> tasks[u.k].id, type |-> Types[u.t],
     index |-> u.index, src |-> prog[Types[u.t]]]

\* generateArtAsset reporting '<name> created' right after the call of resize,
\* outside the .then of its promise.
InvocationsReportedEarly(tasks, units, prog) ==
    LET u == SeqOf(units)
    IN [i \in 1..(2 * Len(u)) |->
           IF i % 2 = 1 THEN Event("resize", tasks, u[(i + 1) \div 2], prog)
                        ELSE Event("created", tasks, u[i \div 2], prog)]

\* The resize events of the units invoked in one turn.
Invocations(tasks, units, prog) ==
    LET s == SeqOf(units) IN [i \in 1..Len(s) |-> Event("resize", tasks, s[i], prog)]

----------------------------------------------------------------------------
(* processPath: strings are sequences of characters *)

\* A regular expression that stops after $PROJECT.
ProjectNameREShort == <<"$", "P", "R", "O", "J", "E", "C", "T">>

\* projectNameRE = /\$PROJECT_NAME/g: the literal text it matches.
ProjectNameRE == <<"$", "P", "R", "O", "J", "E", "C", "T", "_", "N", "A", "M", "E">>

\* Whether the text tok stands in s at position i.
MatchAt(s, i, tok) ==
    /\ i + Len(tok) - 1 <= Len(s)
    /\ \A j \in 1..Len(tok) : s[i + j - 1] = tok[j]

\* String.prototype.replace with a string as replacement: the text inserted
\* for the match standing at position i of s.  $$ gives $, $& the match, $`
\* the text before the match, $' the text after it; any other $ is literal
\* (the expression has no capture group).
RECURSIVE Substitution(_, _, _, _)
Substitution(rep, j, s, i) ==
    IF j > Len(rep) THEN <<>>
    ELSE IF rep[j] = "$" /\ j < Len(rep) /\ rep[j + 1] \in {"$", "&", "`", "'"}
    THEN (CASE rep[j + 1] = "$" -> <<"$">>
            [] rep[j + 1] = "&" -> ProjectNameRE
            [] rep[j + 1] = "`" -> SubSeq(s, 1, i - 1)
            [] rep[j + 1] = "'" -> SubSeq(s, i + Len(ProjectNameRE), Len(s)))
         \o Substitution(rep, j + 2, s, i)
    ELSE <<rep[j]>> \o Substitution(rep, j + 1, s, i)

\* The global replace: s from position i on, every match (left to right, not
\* overlapping) replaced by its substitution.
RECURSIVE Replace(_, _, _)
Replace(s, i, rep) ==
    IF i > Len(s) THEN <<>>
    ELSE IF MatchAt(s, i, ProjectNameRE)
    THEN Substitution(rep, 1, s, i) \o Replace(s, i + Len(ProjectNameRE), rep)
    ELSE <<s[i]>> \o Replace(s, i + 1, rep)

\* processPath(path, projectName)
ProcessPath(template, projectName_) == Replace(template, 1, projectName_)

\* The strings made of at most n segments of the set segs.
RECURSIVE Strings(_, _)
Strings(segs, n) ==
    IF n = 0 THEN {<<>>}
    ELSE LET shorter == Strings(segs, n - 1)
         IN shorter \cup {a \o b : a \in shorter, b \in segs}

\* Path templates: separators, letters, a lone $, the beginning of the token,
\* the token.
Templates ==
    Strings({<<"/">>, <<"r">>, <<"$">>, ProjectNameREShort, ProjectNameRE},
            MaxTemplateSegments)

\* Project names: letters, the characters of the replacement patterns, the token.
Names ==
    Strings({<<"A">>, <<"$">>, <<"&">>, <<"`">>, <<"'">>, ProjectNameRE},
            MaxNameSegments)

----------------------------------------------------------------------------
Init ==
    /\ platformInfo \in [Platform -> Descriptors]
    /\ fs \in [Platform -> {"dir", "file", "ENOENT", "EACCES"}]
    /\ disk \in [icon : {"ok", "ENOENT"}, splash : {"ok", "ENOENT"},
                 config : {"ok", "ENOENT", "EACCES"}]
    /\ xml \in {"named", "noname", "malformed"}
    /\ (disk.config # "ok" => xml = "named")
    /\ program = [icon |-> "icon.png", splash |-> "splash.png", config |-> "config.xml"]
    \* the script has run to its end: atLeastOnePlatformFound() issued the probes
    /\ pc = "stat1"
    /\ stat = [p \in Platform |-> "pending"]
    /\ platforms = <<>>
    /\ projectName = ""
    /\ assetRead = [icon |-> "idle", splash |-> "idle"]
    /\ valid = [icon |-> "unset", splash |-> "unset"]
    /\ validArt = "none"
    /\ pending = {}
    /\ trace = <<>>
    /\ reported = "none"
    /\ issued = {"stat1"}
    /\ shown = {}
    /\ activePlatforms = <<>>
    /\ failures = <<>>
    /\ fsChanges = 0
    /\ path = <<>>
    /\ name = <<>>
    /\ returned = <<>>
    /\ ppc = "idle"

\* A final handler that ends the run without showing the error.
CatchSilent(err) ==
    /\ pc' = "done"
    /\ reported' = "none"
    /\ failures' = Append(failures, err)

\* The final .catch and .then of the chain.
Catch(err) ==
    /\ pc' = "done"
    /\ reported' = err
    /\ failures' = Append(failures, err)

\* generate(platforms): start the chain; the run ends when nothing is invoked.
Generate(pl, prog) ==
    LET tasks == Where(pl)
        units == FirstFrom(tasks, 1, 1, prog)
    IN /\ pending' = units
       /\ trace' = trace \o Invocations(tasks, units, prog)
       /\ pc' = IF units = {} THEN "done" ELSE "resize"

----------------------------------------------------------------------------
(* fs.stat callbacks of getPlatforms *)

\* A probe fails while Q.all is unsettled: Q.all rejects, the chain jumps to catch.
StatRejects(p) ==
    /\ stat[p] = "pending"
    /\ pc \in {"stat1", "stat2"}
    /\ Stat(fs[p]) \in IOErrors
    /\ stat' = [stat EXCEPT ![p] = Stat(fs[p])]
    /\ Catch(Stat(fs[p]))
    /\ UNCHANGED <<activePlatforms, aux, env, program, platforms, projectName, assetRead, valid, validArt,
                   pending, trace, issued, shown>>

\* A probe succeeds and others are still pending.
StatResolves(p) ==
    /\ stat[p] = "pending"
    /\ pc \in {"stat1", "stat2"}
    /\ Stat(fs[p]) \notin IOErrors
    /\ \E q \in Platform \ {p} : stat[q] = "pending"
    /\ stat' = [stat EXCEPT ![p] = Stat(fs[p])]
    /\ UNCHANGED <<activePlatforms, failures, aux, env, program, pc, platforms, projectName, assetRead, valid, validArt,
                   pending, trace, reported, issued, shown>>

\* A probe completes after Q.all was rejected: no handler is left to run.
StatLate(p) ==
    /\ stat[p] = "pending"
    /\ pc \notin {"stat1", "stat2"}
    /\ stat' = [stat EXCEPT ![p] = Stat(fs[p])]
    /\ failures' = IF Stat(fs[p]) \in IOErrors THEN Append(failures, Stat(fs[p]))
                    ELSE failures
    /\ UNCHANGED <<activePlatforms, aux, env, program, pc, platforms, projectName, assetRead, valid, validArt,
                   pending, trace, reported, issued, shown>>

\* The last probe of the first getPlatforms succeeds: atLeastOnePlatformFound's
\* handler runs, then configFileExists issues its readFile.
AtLeastOnePlatformFound(p) ==
    /\ stat[p] = "pending"
    /\ pc = "stat1"
    /\ Stat(fs[p]) \notin IOErrors
    /\ \A q \in Platform \ {p} : stat[q] # "pending"
    /\ stat' = [stat EXCEPT ![p] = Stat(fs[p])]
    /\ platforms' = Resolved(stat')
    /\ activePlatforms' = Where(platforms')
    /\ IF Len(Where(platforms')) = 0
       THEN /\ Catch("NoPlatformsError")
            /\ UNCHANGED <<issued, shown>>
       ELSE /\ pc' = "configFileExists"
            /\ issued' = issued \cup {"configFileExists"}
            /\ shown' = shown \cup {<<"platforms", "found">>}
            /\ UNCHANGED <<reported, failures>>
    /\ UNCHANGED <<aux, env, program, projectName, assetRead, valid, validArt, pending, trace>>

\* The last probe of the second getPlatforms succeeds: generate starts.
GetPlatformsThenGenerate(p) ==
    /\ stat[p] = "pending"
    /\ pc = "stat2"
    /\ Stat(fs[p]) \notin IOErrors
    /\ \A q \in Platform \ {p} : stat[q] # "pending"
    /\ stat' = [stat EXCEPT ![p] = Stat(fs[p])]
    /\ platforms' = Resolved(stat')
    /\ Generate(platforms', program)
    /\ UNCHANGED <<activePlatforms, failures, aux, env, program, projectName, assetRead, valid, validArt, reported,
                   issued, shown>>

----------------------------------------------------------------------------
(* fs.readFile callbacks of validParamFile *)

\* configFileExists' readFile completes; on true or false the chain goes on:
\* validArtAssets issues both asset reads and returns undefined, so that
\* getProjectName issues its readFile in the same turn.
ConfigFileExists ==
    /\ pc = "configFileExists"
    /\ LET r == ValidParamFile("config", FALSE, disk.config, program)
       IN /\ program' = r.program
          /\ IF r.result = "throw"
             THEN /\ Catch(disk.config)
                  /\ UNCHANGED <<assetRead, validArt, issued, shown>>
             ELSE /\ pc' = "readFile"
                  /\ assetRead' = [icon |-> "pending", splash |-> "pending"]
                  /\ validArt' = "pending"
                  /\ issued' = issued \cup {"icon", "splash", "readFile"}
                  /\ shown' = IF r.msg = <<>> THEN shown ELSE shown \cup {r.msg}
                  /\ UNCHANGED <<reported, failures>>
    /\ UNCHANGED <<activePlatforms, aux, env, stat, platforms, projectName, valid, pending, trace>>

\* validIconExists' / validSplashExists' readFile completes; when both have,
\* the .spread handler of validArtAssets settles the dropped promise.
ValidAssetExists(type) ==
    /\ assetRead[type] = "pending"
    /\ LET r == ValidParamFile(type, TRUE, disk[type], program)
       IN /\ program' = r.program
          /\ valid' = [valid EXCEPT ![type] = r.result]
          /\ shown' = shown \cup {r.msg}
    /\ assetRead' = [assetRead EXCEPT ![type] = "done"]
    /\ validArt' = IF \E t \in {"icon", "splash"} : assetRead'[t] # "done"
                   THEN validArt
                   ELSE IF SpreadThrows(valid'.icon, valid'.splash)
                        THEN "rejected" ELSE "resolved"
    /\ UNCHANGED <<activePlatforms, failures, aux, env, pc, stat, platforms, projectName, pending, trace, reported, issued>>

----------------------------------------------------------------------------
(* getProjectName *)

\* readFile(program.config) completes.
ReadFile ==
    /\ pc = "readFile"
    /\ IF disk.config = "ok"
       THEN /\ pc' = "parseString"
            /\ issued' = issued \cup {"parseString"}
            /\ UNCHANGED <<reported, failures>>
       ELSE /\ Catch(disk.config)
            /\ UNCHANGED issued
    /\ UNCHANGED <<activePlatforms, aux, env, program, stat, platforms, projectName, assetRead, valid,
                   validArt, pending, trace, shown>>

\* A parse handler that ignores the parser's error and goes on with no name.
ParseStringLenient ==
    /\ pc = "parseString"
    /\ projectName' = IF xml = "named" THEN "App" ELSE ""
    /\ stat' = [p \in Platform |-> "pending"]
    /\ issued' = issued \cup {"stat2"}
    /\ pc' = "stat2"
    /\ UNCHANGED <<activePlatforms, aux, env, program, platforms, assetRead, valid,
                   validArt, pending, trace, shown, reported, failures>>

\* parser.parseString completes; on success the name is extracted and
\* getPlatforms(projectName) issues the second round of probes.
ParseString ==
    /\ pc = "parseString"
    /\ IF xml = "malformed"
       THEN /\ Catch("ParseError")
            /\ UNCHANGED <<projectName, stat, issued>>
       ELSE IF WidgetName(xml) = "TypeError"
       THEN /\ Catch("TypeError")
            /\ UNCHANGED <<projectName, stat, issued>>
       ELSE /\ projectName' = WidgetName(xml)
            /\ stat' = [p \in Platform |-> "pending"]
            /\ issued' = issued \cup {"stat2"}
            /\ pc' = "stat2"
            /\ UNCHANGED <<reported, failures>>
    /\ UNCHANGED <<activePlatforms, aux, env, program, platforms, assetRead, valid, validArt, pending,
                   trace, shown>>

----------------------------------------------------------------------------
(* imagemagick resize callbacks of generateArtAsset *)

\* A resize completes without error: '<name> created' is displayed and the
\* chain invokes what comes next.
ResizeDone(u) ==
    /\ u \in pending
    /\ pc = "resize"
    /\ LET tasks == Where(platforms)
           units == NextUnits(tasks, u, program)
       IN /\ pending' = (pending \ {u}) \cup units
          /\ trace' = Append(trace, Event("created", tasks, u, program))
                        \o Invocations(tasks, units, program)
          /\ pc' = IF pending' = {} THEN "done" ELSE "resize"
    /\ UNCHANGED <<activePlatforms, failures, aux, env, program, stat, platforms, projectName, assetRead, valid,
                   validArt, reported, issued, shown>>

\* A resize error that is swallowed per asset: the chain goes on.
ResizeFailsSwallowed(u) ==
    /\ u \in pending
    /\ pc = "resize"
    /\ failures' = Append(failures, "ResizeError")
    /\ LET tasks == Where(platforms)
           units == NextUnits(tasks, u, program)
       IN /\ pending' = (pending \ {u}) \cup units
          /\ trace' = Append(trace, Event("error", tasks, u, program))
                        \o Invocations(tasks, units, program)
          /\ pc' = IF pending' = {} THEN "done" ELSE "resize"
    /\ UNCHANGED <<activePlatforms, aux, env, program, stat, platforms, projectName, assetRead, valid,
                   validArt, reported, issued, shown>>

\* A resize completes with an error: the chain rejects and jumps to catch.
ResizeFails(u) ==
    /\ u \in pending
    /\ pc = "resize"
    /\ pending' = pending \ {u}
    /\ trace' = Append(trace, Event("error", Where(platforms), u, program))
    /\ Catch("ResizeError")
    /\ UNCHANGED <<activePlatforms, aux, env, program, stat, platforms, projectName, assetRead, valid,
                   validArt, issued, shown>>

----------------------------------------------------------------------------
Next ==
    \/ \E p \in Platform : StatRejects(p)
    \/ \E p \in Platform : StatResolves(p)
    \/ \E p \in Platform : StatLate(p)
    \/ \E p \in Platform : AtLeastOnePlatformFound(p)
    \/ \E p \in Platform : GetPlatformsThenGenerate(p)
    \/ ConfigFileExists
    \/ \E type \in {"icon", "splash"} : ValidAssetExists(type)
    \/ ReadFile
    \/ ParseString
    \/ \E u \in pending : ResizeDone(u)
    \/ \E u \in pending : ResizeFails(u)

Spec == Init /\ [][Next]_vars

\* The event loop delivers a completed callback as long as one is outstanding:
\* every probe, read, parse and resize that was issued completes.
FairSpec == Spec /\ WF_vars(Next)

----------------------------------------------------------------------------
(* The pipeline while the platform roots change on disk *)

\* Another process creates, removes or replaces the root of platform p.
FsChange(p, v) ==
    /\ pc # "done"
    /\ fsChanges < MaxFsChanges
    /\ v # fs[p]
    /\ fs' = [fs EXCEPT ![p] = v]
    /\ fsChanges' = fsChanges + 1
    /\ UNCHANGED <<platformInfo, disk, xml, program, pc, stat, platforms, projectName,
                   assetRead, valid, validArt, pending, trace, reported, issued, shown,
                   activePlatforms, failures, path, name, returned, ppc>>

\* Runs whose files are all readable, with a named config document.
InitFs ==
    /\ Init
    /\ disk = [icon |-> "ok", splash |-> "ok", config |-> "ok"]
    /\ xml = "named"

NextFs ==
    \/ Next
    \/ \E p \in Platform, v \in {"dir", "file", "ENOENT", "EACCES"} : FsChange(p, v)

SpecFs == InitFs /\ [][NextFs]_vars

----------------------------------------------------------------------------
(* processPath on its own: every template and every project name of the bounds *)

InitPath ==
    /\ platformInfo = [p \in Platform |-> [icon |-> 1, splash |-> 0]]
    /\ fs = [p \in Platform |-> "dir"]
    /\ disk = [icon |-> "ok", splash |-> "ok", config |-> "ok"]
    /\ xml = "named"
    /\ program = [icon |-> "icon.png", splash |-> "splash.png", config |-> "config.xml"]
    /\ pc = "stat1"
    /\ stat = [p \in Platform |-> "pending"]
    /\ platforms = <<>>
    /\ projectName = ""
    /\ assetRead = [icon |-> "idle", splash |-> "idle"]
    /\ valid = [icon |-> "unset", splash |-> "unset"]
    /\ validArt = "none"
    /\ pending = {}
    /\ trace = <<>>
    /\ reported = "none"
    /\ issued = {"stat1"}
    /\ shown = {}
    /\ activePlatforms = <<>>
    /\ failures = <<>>
    /\ fsChanges = 0
    /\ path \in Templates
    /\ name \in Names
    /\ returned = <<>>
    /\ ppc = "call"

\* One call of processPath.
ProcessPathCall ==
    /\ ppc = "call"
    /\ returned' = ProcessPath(path, name)
    /\ ppc' = "return"
    /\ UNCHANGED <<env, program, pc, stat, platforms, projectName, assetRead, valid,
                   validArt, pending, trace, reported, issued, shown, activePlatforms,
                   failures, fsChanges, path, name>>

SpecPath == InitPath /\ [][ProcessPathCall]_vars

----------------------------------------------------------------------------
(* Properties *)

IsPrefix(s, t) == Len(s) <= Len(t) /\ \A i \in 1..Len(s) : s[i] = t[i]

\* The resize invocations made so far, as <<platform, type, index>>.
Invoked ==
    LET r == SelectSeq(trace, LAMBDA e : e.op = "resize")
    IN [i \in 1..Len(r) |-> <<r[i].platform, r[i].type, r[i].index>>]

\* The work list of one platform: its icon specifications in declared order,
\* then its splash specifications in declared order.
ExpectedFor(p) ==
    [i \in 1..platformInfo[p].icon |-> <<p, "icon", i>>]
    \o [i \in 1..platformInfo[p].splash |-> <<p, "splash", i>>]

\* The work list of a run: the platforms with isAdded = true, in list order.
RECURSIVE Expected(_)
Expected(pl) ==
    IF pl = <<>> THEN <<>>
    ELSE (IF Head(pl).isAdded THEN ExpectedFor(Head(pl).id) ELSE <<>>)
         \o Expected(Tail(pl))

BothPresent == disk.icon = "ok" /\ disk.splash = "ok"

\* C1: with both source images present, the resize invocations of a run are at
\* every moment a prefix of the work list (added platforms in list order, per
\* platform the icon specifications then the splash specifications, in declared
\* order, nothing for a platform that is not added), and a run in which no
\* resize failed ends with exactly the work list, each unit invoked once.
C1_InvocationOrder ==
    BothPresent =>
        /\ IsPrefix(Invoked, Expected(platforms))
        /\ (pc = "done" /\ reported = "none" => Invoked = Expected(platforms))

\* A finished run over one platform that is not added and one added platform
\* with MaxAssets icon and MaxAssets - 1 splash specifications.
C1_Witness ==
    /\ BothPresent
    /\ pc = "done" /\ reported = "none"
    /\ \E p \in Platform : fs[p] = "file"
    /\ \E p \in Platform : fs[p] = "dir" /\ platformInfo[p].icon = MaxAssets
    /\ Len(Invoked) = 2 * MaxAssets - 1

\* C2: a failed resize is the last event of the run: nothing is invoked after
\* it, no resize is left pending, and the run has ended reporting that failure.
C2_FailureAborts ==
    \A i \in 1..Len(trace) :
        trace[i].op = "error" =>
            /\ i = Len(trace)
            /\ pending = {}
            /\ pc = "done"
            /\ reported = "ResizeError"

\* The second icon of a platform with more work to do has failed.
C2_Witness ==
    /\ Len(trace) = 4
    /\ trace[4].op = "error" /\ trace[4].type = "icon" /\ trace[4].index = 2
    /\ platformInfo[trace[4].platform].icon = MaxAssets
    /\ platformInfo[trace[4].platform].splash > 0
    /\ program.splash # Null

\* C3: at most one resize is pending, and every resize but the first is
\* invoked in the handler of the successful completion of the previous one.
C3_OnePending ==
    /\ Cardinality(pending) <= 1
    /\ \A i \in 1..Len(trace) :
          trace[i].op = "resize" =>
              /\ i > 1 => trace[i - 1].op = "created"
              /\ i < Len(trace) =>
                    /\ trace[i + 1].op \in {"created", "error"}
                    /\ trace[i + 1].platform = trace[i].platform
                    /\ trace[i + 1].type = trace[i].type
                    /\ trace[i + 1].index = trace[i].index

\* A resize is pending for a platform after resizes of another platform, and
\* of the other asset type, have completed.
C3_Witness ==
    /\ Cardinality(pending) = 1
    /\ \E i \in 1..Len(trace) :
          /\ trace[i].op = "created"
          /\ trace[i].platform # trace[Len(trace)].platform
          /\ trace[i].type # trace[Len(trace)].type

\* C4 (as claimed): with the splash source unreadable and the icon source
\* readable, no splash resize is ever invoked.
C4_NoSplashResize ==
    (disk.splash # "ok" /\ disk.icon = "ok") =>
        \A i \in 1..Len(trace) : trace[i].op = "resize" => trace[i].type # "splash"

\* C5 (as claimed): with both sources unreadable (and a readable, well-formed,
\* named config document, so that no other stage fails), a run that has ended
\* after both asset reads completed has reported NoAssetsError.
C5_NoAssetsError ==
    (/\ disk.icon # "ok" /\ disk.splash # "ok"
     /\ disk.config = "ok" /\ xml = "named"
     /\ assetRead.icon = "done" /\ assetRead.splash = "done"
     /\ pc = "done")
    => reported = "NoAssetsError"

\* C6 (as claimed): when the config document does not exist, the config-presence
\* stage fails the run with MissingConfigError and no later read is issued.
C6_MissingConfigStops ==
    disk.config = "ENOENT" =>
        /\ issued \cap {"icon", "splash", "readFile"} = {}
        /\ (pc = "done" /\ "configFileExists" \in issued
               => reported = "MissingConfigError")

\* C7 (as claimed): when no platform root exists, the run ends with
\* NoPlatformsError and issues no read, no parse and no resize.
C7_NoPlatformsError ==
    (\A p \in Platform : fs[p] = "ENOENT") =>
        /\ issued \subseteq {"stat1"}
        /\ trace = <<>>
        /\ (pc = "done" => reported = "NoPlatformsError")

\* C8 (as claimed): when every root either exists or is not found, then once
\* all probes have completed getPlatforms has resolved with one platform per
\* descriptor, in order, isAdded telling whether the root directory exists.
C8_ResolvesAll ==
    (/\ \A p \in Platform : fs[p] \in {"dir", "file", "ENOENT"}
     /\ \A p \in Platform : stat[p] # "pending")
    => platforms = [p \in Platform |-> [id |-> p, isAdded |-> fs[p] = "dir"]]

\* C9 (as claimed): every resize is invoked for an added platform, with a
\* non-null source of its type and from a non-empty specification list.
C9_GuardsAtInvocation ==
    \A i \in 1..Len(trace) :
        trace[i].op = "resize" =>
            /\ platforms[trace[i].platform].isAdded
            /\ trace[i].src # Null
            /\ platformInfo[trace[i].platform][trace[i].type] > 0

\* C10: when the parsed config document lacks widget.name, no resize is ever
\* invoked, the second platform resolution is never issued, and once the parse
\* has completed the run has ended reporting the extraction's failure.
C10_NoNameNoGeneration ==
    (disk.config = "ok" /\ xml = "noname") =>
        /\ trace = <<>>
        /\ "stat2" \notin issued
        /\ ("parseString" \in issued /\ pc # "parseString"
               => pc = "done" /\ reported = "TypeError")

\* The extraction has failed on a document without a name.
C10_Witness ==
    /\ xml = "noname"
    /\ "parseString" \in issued
    /\ pc = "done" /\ reported = "TypeError"

\* The placeholder token of the path templates.
Token == <<"$", "P", "R", "O", "J", "E", "C", "T", "_", "N", "A", "M", "E">>

Contains(s, tok) == \E i \in 1..Len(s) : MatchAt(s, i, tok)

\* s from position i on with every occurrence of the token replaced by the
\* text rep, copied as it is.
RECURSIVE ReplaceLiteral(_, _, _)
ReplaceLiteral(s, i, rep) ==
    IF i > Len(s) THEN <<>>
    ELSE IF MatchAt(s, i, Token)
    THEN rep \o ReplaceLiteral(s, i + Len(Token), rep)
    ELSE <<s[i]>> \o ReplaceLiteral(s, i + 1, rep)

\* C11 (as claimed): for a template that contains the token, processPath
\* returns the template with every occurrence of the token replaced by the
\* project name, and the result contains no token.
C11_ReplacesEveryToken ==
    (ppc = "return" /\ Contains(path, Token)) =>
        /\ returned = ReplaceLiteral(path, 1, name)
        /\ ~Contains(returned, Token)

\* C12: for a template that does not contain the token, processPath returns
\* the template unchanged, whatever the project name.
C12_NoTokenUnchanged ==
    (ppc = "return" /\ ~Contains(path, Token)) => returned = path

\* processPath has returned for a non-empty template without the token that
\* holds the beginning of the token, and a name with a replacement pattern.
C12_Witness ==
    /\ ppc = "return"
    /\ ~Contains(path, Token)
    /\ Contains(path, SubSeq(Token, 1, 8))
    /\ name = <<"$", "&">>
    /\ returned = path

\* C13 (as claimed): every stage issues its first operation only after the
\* previous stage has completed; in particular getProjectName's read of the
\* config is issued only after both asset reads have completed.
C13_StagesInOrder ==
    /\ "configFileExists" \in issued => pc # "stat1"
    /\ "icon" \in issued => pc \notin {"stat1", "configFileExists"}
    /\ "readFile" \in issued => assetRead.icon = "done" /\ assetRead.splash = "done"
    /\ "stat2" \in issued => pc \notin {"stat1", "configFileExists", "readFile", "parseString"}
    /\ trace # <<>> => pc \in {"resize", "done"}

\* generate has been called.
GenerationStarted ==
    pc = "resize" \/ trace # <<>> \/ (pc = "done" /\ reported = "none")

\* C14 (as claimed): a source flag of the run configuration is written at most
\* once (a disabled flag is not written again), and never once generation has
\* started.
C14_FlagsWrittenBeforeGeneration ==
    [][ /\ \A t \in {"icon", "splash"} : program[t] = Null => program'[t] = Null
        /\ GenerationStarted => program' = program ]_vars

\* C16 (as claimed): when the probe of some root fails with another error than
\* not-found, a platform resolution that has failed has failed with that
\* error; when no probe fails that way, the resolution is over only when every
\* probe has completed.
C16_ProbeFailureIsFatal ==
    /\ ((\E p \in Platform : fs[p] = "EACCES") /\ pc = "done" /\ issued = {"stat1"})
          => reported = "EACCES"
    /\ ((\A p \in Platform : fs[p] # "EACCES") /\ pc # "stat1" /\ "stat2" \notin issued)
          => \A p \in Platform : stat[p] # "pending"

\* The platforms the platform-presence check found added.
FoundAdded == {activePlatforms[i].id : i \in 1..Len(activePlatforms)}

\* C15 (as claimed): the isAdded that generation uses for a platform tells
\* whether the platform-presence check found its root directory.
C15_SingleSnapshot ==
    GenerationStarted =>
        \A p \in Platform : platforms[p].isAdded <=> p \in FoundAdded

\* C15 (amended): the isAdded that generation uses for a platform tells whether
\* the probe of the second platform resolution, the one that follows the
\* project-name read, found a directory; stat holds what that probe saw.
C15_SecondResolutionDecides ==
    GenerationStarted =>
        /\ Len(platforms) = NumPlatforms
        /\ \A p \in Platform : platforms[p].isAdded <=> stat[p] = "isDirectory"
        /\ \A i \in 1..Len(trace) : stat[trace[i].platform] = "isDirectory"

\* A resize was invoked for a platform that the platform-presence check had
\* not found added: its root became a directory in between.
C15_Witness ==
    /\ fsChanges > 0
    /\ \E i \in 1..Len(trace) :
          /\ trace[i].op = "resize"
          /\ trace[i].platform \notin FoundAdded

\* The position of a suspension point in the chain.
Rank(at) ==
    CASE at = "stat1" -> 1
      [] at = "configFileExists" -> 2
      [] at = "readFile" -> 3
      [] at = "parseString" -> 4
      [] at = "stat2" -> 5
      [] at = "resize" -> 6
      [] at = "done" -> 7

\* C17: every run reaches its terminal report; the report is made once and
\* never changes; the chain never goes back to an earlier stage; a failure of
\* a stage ends the run at once, and the report of a run is the first failure
\* that occurred, or none when no stage failed.
C17_TerminatesWithFirstFailure ==
    /\ <>(pc = "done")
    /\ [][pc = "done" => (pc' = "done" /\ reported' = reported)]_vars
    /\ [][Rank(pc') >= Rank(pc)]_vars
    /\ [](failures # <<>> => pc = "done")
    /\ [](pc = "done" => reported = IF failures = <<>> THEN "none" ELSE failures[1])

\* A run has ended on the first of two different failures: a second probe
\* failed after the resolution had been rejected.
C17_Witness ==
    /\ pc = "done"
    /\ Len(failures) >= 2
    /\ failures[1] # failures[2]
    /\ reported = failures[1]

SameUnit(e, f) ==
    e.platform = f.platform /\ e.type = f.type /\ e.index = f.index

\* C18: a 'created' report directly follows the invocation of the resize of
\* the same asset (it is made when that resize completes, before anything else
\* is invoked); no asset is reported twice; a resize that failed is not
\* reported; a report is always for a resize that was invoked; and a run that
\* ends without failure has reported every asset it resized.
C18_CreatedAfterEachResize ==
    /\ \A i \in 1..Len(trace) :
          trace[i].op = "created" =>
              /\ i > 1
              /\ trace[i - 1].op = "resize"
              /\ SameUnit(trace[i - 1], trace[i])
    /\ \A i, j \in 1..Len(trace) :
          (trace[i].op = "created" /\ trace[j].op = "created" /\ SameUnit(trace[i], trace[j]))
              => i = j
    /\ \A i, j \in 1..Len(trace) :
          (trace[i].op = "error" /\ trace[j].op = "created") => ~SameUnit(trace[i], trace[j])
    /\ (pc = "done" /\ reported = "none") =>
          \A i \in 1..Len(trace) :
              trace[i].op = "resize" =>
                  i < Len(trace) /\ trace[i + 1].op = "created"

\* Two assets were reported created and the resize of a third has failed.
C18_Witness ==
    /\ Len(trace) = 6
    /\ trace[2].op = "created"
    /\ trace[4].op = "created"
    /\ trace[6].op = "error"

\* C19: when a resize has been invoked, the platform-presence check had found
\* an added platform, the config document was read and parsed and gave the
\* project name, and the second platform resolution, issued after that, has
\* resolved with every probe fulfilled.
C19_ResizeOnlyAfterStages ==
    trace # <<>> =>
        /\ activePlatforms # <<>>
        /\ <<"platforms", "found">> \in shown
        /\ {"configFileExists", "readFile", "parseString", "stat2"} \subseteq issued
        /\ disk.config = "ok" /\ xml = "named"
        /\ projectName = "App"
        /\ \A p \in Platform : stat[p] \in {"isDirectory", "notDirectory"}
        /\ platforms = Resolved(stat)
        /\ \A i \in 1..Len(failures) : failures[i] = "ResizeError"

\* A resize is pending after all the stages before generation.
C19_Witness ==
    /\ pc = "resize"
    /\ pending # {}
    /\ projectName = "App"
    /\ failures = <<>>

====
